---- MODULE Spec2Model ----
(***************************************************************************)
(* A model of cmdhelper.py: the logging configuration that CmdHelper sets  *)
(* up (console, error, file and e-mail handlers with their levels and      *)
(* filters), the formatters, the stdout redirector and the buffering       *)
(* e-mail handler.                                                         *)
(*                                                                         *)
(* Text is a sequence of one-character strings, so that splitting on line  *)
(* breaks, prefixing and padding are computed and not assumed.             *)
(***************************************************************************)
EXTENDS Integers, Sequences, FiniteSets, TLC

(***************************************************************************)
(* Severities.  DEBUG .. CRITICAL are the values of the logging module;    *)
(* STDOUT is the level cmdhelper adds.                                     *)
(***************************************************************************)
NOTSET == 0

DEBUG == 10

INFO == 20

STDOUT_BelowInfo == DEBUG + 5

\* logging.STDOUT = 25
STDOUT == 25

WARNING == 30

ERROR == 40

CRITICAL == 50

\* consoleHandler.setLevel(9999): "disable logging to consoleHandler"
DISABLED == 9999

\* triggerLevelNo=None, and the level of a handler that is not registered
NoLevel == -1

Levels == {DEBUG, INFO, STDOUT, WARNING, ERROR, CRITICAL}

(***************************************************************************)
(* State.  Four parts, each driven by a specification of its own.          *)
(***************************************************************************)
\* CmdHelper and the root logger
VARIABLES
    separateStdErr,   \* constructor argument
    redirectStdOut,   \* constructor argument: sys.stdout is a LogWriter
    parsed,           \* parse() has run
    options,          \* the options parse() read
    emailTrigger,     \* triggerLevelNo of the e-mail handler
    handlers,         \* sink name -> handler registered on the root logger
    parseLog,         \* the records parse() dispatched, in order
    last              \* the record dispatched last

cmdVars ==
    <<separateStdErr, redirectStdOut, parsed, options, emailTrigger, handlers,
      parseLog, last>>

\* One formatter fed a sequence of records
VARIABLES
    fKind,        \* "console" or "file"
    fTsMode,      \* FileFormatter.timestampFmt is set
    fStartLine,   \* FileFormatter._startLine
    fPrevStart,   \* _startLine when the last record was formatted
    fPrevLevel,   \* the severity of the record formatted before the last one
    fPrevEnded,   \* that record's formatted text ended in a line break
    fRec,         \* the last record formatted
    fOut,         \* its formatted text
    fMidLine,     \* the text emitted to the stream so far ends inside a line
    fWasMidLine   \* it did before the last record was emitted

fmtVars ==
    <<fKind, fTsMode, fStartLine, fPrevStart, fPrevLevel, fPrevEnded, fRec, fOut,
      fMidLine, fWasMidLine>>

\* One BufferingSMTPHandler
VARIABLES
    mail,         \* [capacity, triggerLevelNo, triggered, buffer]
    mOp,          \* the last call: "none", "emit" or "flush"
    mFlush,       \* what flush() did in that call
    mSeen         \* the highest severity emitted to the handler so far

mailVars == <<mail, mOp, mFlush, mSeen>>

\* The redirected stdout in front of one MyStreamHandler
VARIABLES
    wKind,        \* formatter of the handler: "console" or "file"
    wHandler,     \* the handler's level and filters
    wStream,      \* the text written to the handler's stream
    wWritten,     \* the strings passed to write(), concatenated
    wCalls,       \* calls of write()
    wRecs         \* the records those calls produced, in order

wrVars == <<wKind, wHandler, wStream, wWritten, wCalls, wRecs>>

\* One MyStreamHandler on a stream that can break
VARIABLES
    ioSink,           \* "console", "error" or "file"
    abortOnIOError,   \* the handler's abortOnIOError
    ioBroken,         \* "none", or where the stream raises: "write", "flush"
    ioStream,         \* the text the stream delivered
    ioEmits,          \* calls of emit()
    ioFailed,         \* calls of emit() in which the stream raised
    ioErrors,         \* calls of handleError()
    ioExited          \* SystemExit left emit()

ioVars ==
    <<ioSink, abortOnIOError, ioBroken, ioStream, ioEmits, ioFailed, ioErrors,
      ioExited>>

vars == <<cmdVars, fmtVars, mailVars, wrVars, ioVars>>

(***************************************************************************)
(* getLogLevelNo for the strings an option can hold.  logging.getLevelName *)
(* maps a registered name to its number and anything else to the string    *)
(* "Level <x>", on which int() raises: a numeral such as "30" is therefore *)
(* as illegal as an unknown word.  The result is [ok, no]; ok = FALSE      *)
(* stands for the ValueError.                                              *)
(***************************************************************************)
upper(s) ==
    CASE s = "warning" -> "WARNING"
      [] s = "debug" -> "DEBUG"
      [] OTHER -> s

getLevelName(s) ==
    CASE s = "NOTSET" -> NOTSET
      [] s = "DEBUG" -> DEBUG
      [] s = "INFO" -> INFO
      [] s = "STDOUT" -> STDOUT
      [] s = "WARNING" -> WARNING
      [] s = "WARN" -> WARNING
      [] s = "ERROR" -> ERROR
      [] s = "CRITICAL" -> CRITICAL
      [] OTHER -> NoLevel

getLogLevelNo(s) ==
    LET n == getLevelName(upper(s))
    IN  [ok |-> n # NoLevel, no |-> n]

(***************************************************************************)
(* Handlers, filters and dispatch.                                         *)
(***************************************************************************)
SinkNames == {"console", "error", "file", "email"}

NoHandler == [present |-> FALSE, level |-> NoLevel, filters |-> <<>>]

\* Handler.__init__ leaves the level NOTSET; setLevel and addFilter follow.
Handler(level, filters) == [present |-> TRUE, level |-> level, filters |-> filters]

setLevel(h, level) == [h EXCEPT !.level = level]

LevelFilter(levelList, suppressFlag) ==
    [levelList |-> levelList, suppressFlag |-> suppressFlag]

LevelFilter_filter_NoFlag(f, levelno) == levelno \notin f.levelList

LevelFilter_filter(f, levelno) ==
    IF f.suppressFlag
    THEN levelno \notin f.levelList
    ELSE levelno \in f.levelList

\* logging.Filterer.filter: the record passes iff every filter lets it pass.
Filterer_filter(h, levelno) ==
    \A i \in 1..Len(h.filters) : LevelFilter_filter(h.filters[i], levelno)

Accepts_Strict(h, levelno) ==
    /\ h.present
    /\ levelno > h.level
    /\ Filterer_filter(h, levelno)

\* Logger.callHandlers and Handler.handle for one handler:
\* "if record.levelno >= hdlr.level: hdlr.handle(record)", and handle emits
\* iff the handler's filters pass the record.
Accepts(h, levelno) ==
    /\ h.present
    /\ levelno >= h.level
    /\ Filterer_filter(h, levelno)

\* The root logger is at NOTSET, so every record reaches callHandlers.  The
\* NullHandler registered at import emits nothing and is left out.
callHandlers(hs, levelno) == {s \in SinkNames : Accepts(hs[s], levelno)}

\* One dispatched record: its severity, what produced it, the thresholds of
\* the registered handlers at that moment, and the handlers that emitted it.
Event(hs, levelno, tag) ==
    [level |-> levelno,
     tag   |-> tag,
     thr   |-> [s \in SinkNames |-> hs[s].level],
     sinks |-> callHandlers(hs, levelno)]

NoEvent ==
    [level |-> NoLevel, tag |-> "none",
     thr |-> [s \in SinkNames |-> NoLevel], sinks |-> {}]

(***************************************************************************)
(* CmdHelper.                                                              *)
(***************************************************************************)
\* CmdHelper.__init__, "Handlers for console logging"
CmdHelper_init(sep) ==
    [s \in SinkNames |->
        CASE s = "console" ->
               Handler(STDOUT,
                       IF sep THEN <<LevelFilter({STDOUT}, FALSE)>> ELSE <<>>)
          [] s = "error" ->
               IF sep THEN Handler(STDOUT, <<LevelFilter({STDOUT}, TRUE)>>)
                      ELSE NoHandler
          [] OTHER -> NoHandler]

\* The defaults CmdHelper.__init__ gives the options
DefaultOptions ==
    [verbose |-> FALSE, debug |-> FALSE, noscreen |-> FALSE,
     logfile |-> FALSE, loglevel |-> "None", logseparator |-> FALSE,
     emailto |-> FALSE, emaillevel |-> "WARNING", emailtriglevel |-> "None"]

CmdInit ==
    /\ separateStdErr \in BOOLEAN
    /\ redirectStdOut \in BOOLEAN
    /\ parsed = FALSE
    /\ options = DefaultOptions
    /\ emailTrigger = NoLevel
    /\ handlers = CmdHelper_init(separateStdErr)
    /\ parseLog = <<>>
    /\ last = NoEvent

\* The values the level options take: names, a lower-case name, a numeral
\* and a word that is no level.
LogLevelArgs == {"None", "DEBUG", "STDOUT", "WARNING", "warning", "30", "bogus"}

EmailLevelArgs == {"WARNING", "INFO", "ERROR", "bogus"}

EmailTrigArgs == {"None", "ERROR", "bogus"}

Options ==
    [verbose : BOOLEAN, debug : BOOLEAN, noscreen : BOOLEAN,
     logfile : BOOLEAN, loglevel : LogLevelArgs, logseparator : BOOLEAN,
     emailto : BOOLEAN, emaillevel : EmailLevelArgs,
     emailtriglevel : EmailTrigArgs]

\* Options that differ only in a field parse() does not read are one input.
RelevantOptions ==
    {o \in Options :
        /\ (~o.logfile => o.loglevel = "None")
        /\ (~o.emailto => o.emaillevel = "WARNING" /\ o.emailtriglevel = "None")}

parse_file_NoFallback(hs, o) ==
    LET arg == IF o.loglevel = "None"
               THEN (IF o.debug THEN "DEBUG" ELSE "INFO")
               ELSE o.loglevel
        no  == getLogLevelNo(arg)
        h1  == [hs EXCEPT !["file"] =
                   Handler(IF no.ok THEN no.no ELSE NOTSET, <<>>)]
    IN  IF ~o.logfile
        THEN [hs |-> hs, log |-> <<>>]
        ELSE [hs |-> h1,
              log |-> IF no.ok THEN <<>>
                      ELSE <<Event(h1, ERROR, "illegal loglevel")>>]

\* "Configure logging to file"
parse_file(hs, o) ==
    LET arg == IF o.loglevel = "None"
               THEN (IF o.debug THEN "DEBUG" ELSE "INFO")
               ELSE o.loglevel
        no  == getLogLevelNo(arg)
        h1  == [hs EXCEPT !["file"] =
                   Handler(IF no.ok THEN no.no ELSE INFO, <<>>)]
    IN  IF ~o.logfile
        THEN [hs |-> hs, log |-> <<>>]
        ELSE [hs |-> h1,
              log |-> IF no.ok THEN <<>>
                      ELSE <<Event(h1, ERROR, "illegal loglevel")>>]

\* "Log command being executed"
parse_header(hs, o) ==
    <<Event(hs, INFO, "blank")>>
    \o (IF o.logseparator THEN <<Event(hs, INFO, "separator")>> ELSE <<>>)
    \o <<Event(hs, INFO, "cmdline"), Event(hs, INFO, "blank")>>

\* "Configure logging to e-mail"; trig is the triggerLevelNo handed to
\* BufferingSMTPHandler.
parse_email(hs, o) ==
    LET tno  == getLogLevelNo(o.emailtriglevel)
        tbad == o.emailtriglevel # "None" /\ ~tno.ok
        trig == IF o.emailtriglevel # "None" /\ tno.ok THEN tno.no ELSE NoLevel
        e1   == IF tbad THEN <<Event(hs, ERROR, "illegal email trigger level")>>
                        ELSE <<>>
        lno  == getLogLevelNo(o.emaillevel)
        h1   == [hs EXCEPT !["email"] =
                    Handler(IF lno.ok THEN lno.no ELSE WARNING, <<>>)]
        e2   == IF lno.ok THEN <<>>
                          ELSE <<Event(h1, ERROR, "illegal emaillevel")>>
    IN  IF ~o.emailto
        THEN [hs |-> hs, log |-> <<>>, trig |-> NoLevel]
        ELSE [hs |-> h1, log |-> e1 \o e2, trig |-> trig]

consoleLevel(o, default) ==
    IF o.noscreen THEN DISABLED
    ELSE IF o.debug THEN DEBUG
    ELSE IF o.verbose THEN INFO
    ELSE default

\* "Configure console logging level"
parse_console(hs, o) ==
    [s \in SinkNames |->
        CASE s = "console" -> setLevel(hs[s], consoleLevel(o, hs[s].level))
          [] s = "error" ->
               IF hs[s].present THEN setLevel(hs[s], consoleLevel(o, STDOUT))
                                ELSE hs[s]
          [] OTHER -> hs[s]]

Parse_HeaderLast(o) ==
    /\ ~parsed
    /\ LET f == parse_file(handlers, o)
           m == parse_email(f.hs, o)
           c == parse_console(m.hs, o)
           h == parse_header(c, o)
           log == f.log \o m.log \o h
       IN  /\ handlers' = c
           /\ emailTrigger' = m.trig
           /\ parseLog' = log
           /\ last' = log[Len(log)]
    /\ parsed' = TRUE
    /\ options' = o
    /\ UNCHANGED <<separateStdErr, redirectStdOut, fmtVars, mailVars, wrVars, ioVars>>

\* CmdHelper.parse: the file handler, the header, the e-mail handler, the
\* console levels, in this order
Parse(o) ==
    /\ ~parsed
    /\ LET f == parse_file(handlers, o)
           h == parse_header(f.hs, o)
           m == parse_email(f.hs, o)
           log == f.log \o h \o m.log
       IN  /\ handlers' = parse_console(m.hs, o)
           /\ emailTrigger' = m.trig
           /\ parseLog' = log
           /\ last' = log[Len(log)]
    /\ parsed' = TRUE
    /\ options' = o
    /\ UNCHANGED <<separateStdErr, redirectStdOut, fmtVars, mailVars, wrVars, ioVars>>

\* debug(), info(), warning(), error(), critical() on the root logger
Log(levelno) ==
    /\ last' = Event(handlers, levelno, "log")
    /\ UNCHANGED <<separateStdErr, redirectStdOut, parsed, options, emailTrigger,
                   handlers, parseLog, fmtVars, mailVars, wrVars, ioVars>>

\* LogWriter.write through the redirected sys.stdout
Write ==
    /\ redirectStdOut
    /\ last' = Event(handlers, STDOUT, "write")
    /\ UNCHANGED <<separateStdErr, redirectStdOut, parsed, options, emailTrigger,
                   handlers, parseLog, fmtVars, mailVars, wrVars, ioVars>>

CmdNext ==
    \/ \E o \in RelevantOptions : Parse(o)
    \/ \E l \in Levels \ {STDOUT} : Log(l)
    \/ Write

(***************************************************************************)
(* Text and records.                                                       *)
(***************************************************************************)
\* Longest message text
MaxLen == 3

\* Length of a rendered time stamp
TsLen == 2

NL == "\n"

MsgChars == {"a", NL}

Texts == UNION {[1..k -> MsgChars] : k \in 0..MaxLen}

\* Longest message of a logging call
MaxLogLen == 1

LogTexts == {t \in Texts : Len(t) <= MaxLogLen}

spaces(n) == [i \in 1..n |-> " "]

\* str.split('\n'): one segment more than there are line breaks
RECURSIVE split(_)
split(s) ==
    IF \A i \in 1..Len(s) : s[i] # NL
    THEN <<s>>
    ELSE LET i == CHOOSE j \in 1..Len(s) :
                      s[j] = NL /\ \A k \in 1..(j - 1) : s[k] # NL
         IN  <<SubSeq(s, 1, i - 1)>> \o split(SubSeq(s, i + 1, Len(s)))

\* '\n'.join(lines)
RECURSIVE join(_)
join(lines) ==
    IF Len(lines) = 0 THEN <<>>
    ELSE IF Len(lines) = 1 THEN lines[1]
    ELSE lines[1] \o <<NL>> \o join(Tail(lines))

\* msg[-1:] == '\n'
endsWithNL(s) == Len(s) > 0 /\ s[Len(s)] = NL

levelname(levelno) ==
    CASE levelno = DEBUG -> <<"D", "E", "B", "U", "G">>
      [] levelno = INFO -> <<"I", "N", "F", "O">>
      [] levelno = STDOUT -> <<"S", "T", "D", "O", "U", "T">>
      [] levelno = WARNING -> <<"W", "A", "R", "N", "I", "N", "G">>
      [] levelno = ERROR -> <<"E", "R", "R", "O", "R">>
      [] levelno = CRITICAL -> <<"C", "R", "I", "T", "I", "C", "A", "L">>
      [] OTHER -> <<"L", "e", "v", "e", "l">>

root == <<"r", "o", "o", "t">>

LoggerNames == {root, <<"l", "i", "b">>}

\* A LogRecord.  terminator is FALSE for the None that LogWriter.write
\* attaches and TRUE for the default line break.
Records ==
    [levelno : Levels, name : LoggerNames, msg : Texts, terminator : BOOLEAN]

\* The record of a module-level logging call: root logger, no extra
LogCall(levelno, msg) ==
    [levelno |-> levelno, name |-> root, msg |-> msg, terminator |-> TRUE]

\* LogWriter.write: logger.log(loglevel, text, extra={'terminator': None}) on
\* the root logger at the level CmdHelper gives it, STDOUT
LogWriter_write(text) ==
    [levelno |-> STDOUT, name |-> root, msg |-> text, terminator |-> FALSE]

(***************************************************************************)
(* logging.Formatter.format with a %-format: a format is a sequence of     *)
(* literal texts and fields; a field is left-justified to its width.       *)
(***************************************************************************)
Lit(chars) == [kind |-> "lit", text |-> chars, width |-> 0]

Field(name, width) == [kind |-> "field", text |-> name, width |-> width]

ljust(s, w) == IF Len(s) < w THEN s \o spaces(w - Len(s)) ELSE s

\* %(asctime)s: the time stamp, which holds no character of a message
asctime == [i \in 1..TsLen |-> "T"]

fieldValue(name, rec) ==
    CASE name = "levelname" -> levelname(rec.levelno)
      [] name = "name" -> rec.name
      [] name = "message" -> rec.msg
      [] name = "asctime" -> asctime
      [] OTHER -> <<>>

RECURSIVE Formatter_format(_, _)
Formatter_format(fmt, rec) ==
    IF Len(fmt) = 0 THEN <<>>
    ELSE (IF fmt[1].kind = "lit" THEN fmt[1].text
          ELSE ljust(fieldValue(fmt[1].text, rec), fmt[1].width))
         \o Formatter_format(Tail(fmt), rec)

\* '%(message)s'
FmtMessage == <<Field("message", 0)>>

\* '%(levelname)s: %(message)s'
FmtLevelMessage == <<Field("levelname", 0), Lit(<<":", " ">>), Field("message", 0)>>

ConsoleFormatter_fmt_FromInfo(rec) ==
    IF rec.name # root
    THEN <<Field("levelname", 7), Lit(<<" ">>), Field("name", 30), Lit(<<" ">>),
           Field("message", 0)>>
    ELSE IF rec.levelno >= INFO
    THEN FmtLevelMessage
    ELSE IF rec.levelno = DEBUG
    THEN <<Lit(<<".", ".", ".", " ">>), Field("message", 0)>>
    ELSE FmtMessage

\* The format ConsoleFormatter.format selects for a record
ConsoleFormatter_fmt(rec) ==
    IF rec.name # root
    THEN <<Field("levelname", 7), Lit(<<" ">>), Field("name", 30), Lit(<<" ">>),
           Field("message", 0)>>
    ELSE IF rec.levelno > STDOUT
    THEN FmtLevelMessage
    ELSE IF rec.levelno = DEBUG
    THEN <<Lit(<<".", ".", ".", " ">>), Field("message", 0)>>
    ELSE FmtMessage

ConsoleFormatter_format(rec) == Formatter_format(ConsoleFormatter_fmt(rec), rec)

\* A time stamp format as CmdHelper's logTimestampFmt gives it
timestampFmt == <<Field("asctime", 0)>>

\* FileFormatter.format without a time stamp format
FileFormatter_plain(rec) ==
    Formatter_format(
        IF rec.name # root
        THEN <<Field("levelname", 0), Lit(<<":">>), Field("name", 0),
               Lit(<<":", " ">>), Field("message", 0)>>
        ELSE IF rec.levelno > STDOUT \/ rec.levelno = DEBUG
        THEN FmtLevelMessage
        ELSE FmtMessage,
        rec)

indent_All(lines, timeStamp) ==
    [i \in 1..Len(lines) |->
        IF i > 1 THEN spaces(Len(timeStamp)) \o lines[i] ELSE lines[i]]

\* The loop over lines[1:] of FileFormatter.format: non-empty lines are
\* indented by the length of the time stamp
indent(lines, timeStamp) ==
    [i \in 1..Len(lines) |->
        IF i > 1 /\ Len(lines[i]) # 0
        THEN spaces(Len(timeStamp)) \o lines[i]
        ELSE lines[i]]

\* FileFormatter.format at level STDOUT with a time stamp format
FileFormatter_stdout(startLine, rec) ==
    LET timeStamp == Formatter_format(timestampFmt, rec)
        lines     == split(rec.msg)
        first     == IF startLine THEN timeStamp \o lines[1] ELSE lines[1]
        msg       == join(indent([lines EXCEPT ![1] = first], timeStamp))
    IN  [msg |-> msg, startLine |-> endsWithNL(msg)]

FileFormatter_format_AlwaysStamp(tsMode, startLine, rec) ==
    IF tsMode
    THEN IF rec.levelno = STDOUT
         THEN FileFormatter_stdout(TRUE, rec)
         ELSE [msg |-> Formatter_format(timestampFmt \o FmtMessage, rec),
               startLine |-> TRUE]
    ELSE [msg |-> FileFormatter_plain(rec), startLine |-> startLine]

FileFormatter_format_RawLastLine(tsMode, startLine, rec) ==
    IF tsMode
    THEN IF rec.levelno = STDOUT
         THEN [msg |-> FileFormatter_stdout(startLine, rec).msg,
               startLine |-> endsWithNL(rec.msg) \/ rec.msg = <<>>]
         ELSE [msg |-> Formatter_format(timestampFmt \o FmtMessage, rec),
               startLine |-> TRUE]
    ELSE [msg |-> FileFormatter_plain(rec), startLine |-> startLine]

\* FileFormatter.format: the formatted text and the new _startLine
FileFormatter_format(tsMode, startLine, rec) ==
    IF tsMode
    THEN IF rec.levelno = STDOUT
         THEN FileFormatter_stdout(startLine, rec)
         ELSE [msg |-> Formatter_format(timestampFmt \o FmtMessage, rec),
               startLine |-> TRUE]
    ELSE [msg |-> FileFormatter_plain(rec), startLine |-> startLine]

(***************************************************************************)
(* MyStreamHandler.emit: the formatted record, then the terminator unless  *)
(* the record carries terminator None.                                     *)
(***************************************************************************)
MyStreamHandler_emit_Newline(stream, msg, rec) == stream \o msg \o <<NL>>

MyStreamHandler_emit(stream, msg, rec) ==
    stream \o msg \o (IF rec.terminator THEN <<NL>> ELSE <<>>)

(***************************************************************************)
(* One formatter fed a sequence of records.                                *)
(***************************************************************************)
NoRecord == [levelno |-> NoLevel, name |-> root, msg |-> <<>>, terminator |-> TRUE]

\* FileFormatter.__init__ sets _startLine True
FmtInit ==
    /\ fKind \in {"console", "file"}
    /\ fTsMode \in (IF fKind = "file" THEN BOOLEAN ELSE {FALSE})
    /\ fStartLine = TRUE
    /\ fPrevStart = TRUE
    /\ fPrevLevel = NoLevel
    /\ fPrevEnded = FALSE
    /\ fRec = NoRecord
    /\ fOut = <<>>
    /\ fMidLine = FALSE
    /\ fWasMidLine = FALSE

\* Handler.format: the handler's formatter applied to the record
Handler_format(rec) ==
    IF fKind = "console"
    THEN [msg |-> ConsoleFormatter_format(rec), startLine |-> fStartLine]
    ELSE FileFormatter_format(fTsMode, fStartLine, rec)

\* MyStreamHandler.emit on the handler's stream: whether the stream's text
\* ends inside a line once msg and the record's terminator are written
midLine(mid, msg, rec) ==
    LET text == MyStreamHandler_emit(<<>>, msg, rec)
    IN  IF Len(text) = 0 THEN mid ELSE ~endsWithNL(text)

\* A logging call on the root logger or on a named logger
FmtLog(levelno, name, msg) ==
    LET rec == [LogCall(levelno, msg) EXCEPT !.name = name]
        r   == Handler_format(rec)
    IN  /\ fRec' = rec
        /\ fOut' = r.msg
        /\ fStartLine' = r.startLine
        /\ fPrevStart' = fStartLine
        /\ fPrevLevel' = fRec.levelno
        /\ fPrevEnded' = endsWithNL(fOut)
        /\ fMidLine' = midLine(fMidLine, r.msg, rec)
        /\ fWasMidLine' = fMidLine
        /\ UNCHANGED <<fKind, fTsMode, cmdVars, mailVars, wrVars, ioVars>>

\* A write to the redirected stdout
FmtWrite(text) ==
    LET rec == LogWriter_write(text)
        r   == Handler_format(rec)
    IN  /\ fRec' = rec
        /\ fOut' = r.msg
        /\ fStartLine' = r.startLine
        /\ fPrevStart' = fStartLine
        /\ fPrevLevel' = fRec.levelno
        /\ fPrevEnded' = endsWithNL(fOut)
        /\ fMidLine' = midLine(fMidLine, r.msg, rec)
        /\ fWasMidLine' = fMidLine
        /\ UNCHANGED <<fKind, fTsMode, cmdVars, mailVars, wrVars, ioVars>>

FmtNext ==
    \/ \E l \in Levels \ {STDOUT}, n \in LoggerNames, m \in LogTexts :
          FmtLog(l, n, m)
    \/ \E t \in Texts : FmtWrite(t)

(***************************************************************************)
(* BufferingSMTPHandler.                                                   *)
(***************************************************************************)
\* Largest maxMessagesPerEmail
MaxCapacity == 3

\* Records a buffer holds at most, which is more than its capacity once a
\* failed delivery has left records behind
MaxBuffer == 4

MailTriggers == {NoLevel, WARNING, ERROR}

\* What the handler is given: logging calls and one redirected write
MailRecords ==
    {LogCall(l, <<"a">>) : l \in {INFO, WARNING, ERROR}}
    \cup {LogWriter_write(<<"a">>)}

BufferingSMTPHandler_init(maxMessagesPerEmail, triggerLevelNo) ==
    [capacity       |-> maxMessagesPerEmail,
     triggerLevelNo |-> triggerLevelNo,
     triggered      |-> (triggerLevelNo = NoLevel),
     buffer         |-> <<>>]

\* ''.join(text): every buffered record formatted, with its terminator
RECURSIVE mailText(_)
mailText(buffer) ==
    IF Len(buffer) = 0 THEN <<>>
    ELSE MyStreamHandler_emit(<<>>, ConsoleFormatter_format(buffer[1]), buffer[1])
         \o mailText(Tail(buffer))

NoFlush == [ran |-> FALSE, before |-> <<>>, sent |-> FALSE, text |-> <<>>,
            raised |-> FALSE]

BufferingSMTPHandler_flush_ClearTrigger(h, ok) ==
    IF h.triggered /\ Len(h.buffer) > 0
    THEN [h |-> IF ok THEN [h EXCEPT !.buffer = <<>>,
                                     !.triggered = (h.triggerLevelNo = NoLevel)]
                      ELSE h,
          f |-> [ran |-> TRUE, before |-> h.buffer, sent |-> TRUE,
                 text |-> mailText(h.buffer), raised |-> ~ok]]
    ELSE [h |-> [h EXCEPT !.buffer = <<>>],
          f |-> [ran |-> TRUE, before |-> h.buffer, sent |-> FALSE,
                 text |-> <<>>, raised |-> FALSE]]

\* BufferingSMTPHandler.flush.  ok is whether smtplib delivers; when it
\* raises, the exception leaves flush before "self.buffer = []".
BufferingSMTPHandler_flush(h, ok) ==
    IF h.triggered /\ Len(h.buffer) > 0
    THEN [h |-> IF ok THEN [h EXCEPT !.buffer = <<>>] ELSE h,
          f |-> [ran |-> TRUE, before |-> h.buffer, sent |-> TRUE,
                 text |-> mailText(h.buffer), raised |-> ~ok]]
    ELSE [h |-> [h EXCEPT !.buffer = <<>>],
          f |-> [ran |-> TRUE, before |-> h.buffer, sent |-> FALSE,
                 text |-> <<>>, raised |-> FALSE]]

\* BufferingSMTPHandler.emit, with BufferingHandler.emit: append, and flush
\* when shouldFlush says the buffer has reached the capacity
BufferingSMTPHandler_emit(h, rec, ok) ==
    LET h1 == [h EXCEPT
                 !.triggered = IF h.triggerLevelNo # NoLevel
                                  /\ rec.levelno >= h.triggerLevelNo
                               THEN TRUE ELSE @,
                 !.buffer = Append(@, rec)]
    IN  IF Len(h1.buffer) >= h1.capacity
        THEN BufferingSMTPHandler_flush(h1, ok)
        ELSE [h |-> h1, f |-> NoFlush]

MailInit ==
    /\ \E c \in 1..MaxCapacity, t \in MailTriggers :
          mail = BufferingSMTPHandler_init(c, t)
    /\ mOp = "none"
    /\ mFlush = NoFlush
    /\ mSeen = NoLevel

MailEmit(rec, ok) ==
    /\ Len(mail.buffer) < MaxBuffer
    /\ LET r == BufferingSMTPHandler_emit(mail, rec, ok)
       IN  /\ mail' = r.h
           /\ mFlush' = r.f
    /\ mOp' = "emit"
    /\ mSeen' = IF rec.levelno > mSeen THEN rec.levelno ELSE mSeen
    /\ UNCHANGED <<cmdVars, fmtVars, wrVars, ioVars>>

\* flush() called from outside: logging.shutdown at exit, or the program
MailFlush(ok) ==
    /\ LET r == BufferingSMTPHandler_flush(mail, ok)
       IN  /\ mail' = r.h
           /\ mFlush' = r.f
    /\ mOp' = "flush"
    /\ mSeen' = mSeen
    /\ UNCHANGED <<cmdVars, fmtVars, wrVars, ioVars>>

MailNext ==
    \/ \E rec \in MailRecords, ok \in BOOLEAN : MailEmit(rec, ok)
    \/ \E ok \in BOOLEAN : MailFlush(ok)

(***************************************************************************)
(* LogWriter in front of a MyStreamHandler whose formatter adds no time    *)
(* stamp: the console handler, or the file handler without                 *)
(* logtimestampfmt.                                                        *)
(***************************************************************************)
\* Most calls of write()
MaxWrites == 2

WriterHandlers ==
    {Handler(l, f) : l \in {DEBUG, INFO, STDOUT, WARNING, DISABLED},
                     f \in {<<>>, <<LevelFilter({STDOUT}, FALSE)>>}}

WrInit ==
    /\ wKind \in {"console", "file"}
    /\ wHandler \in WriterHandlers
    /\ wStream = <<>>
    /\ wWritten = <<>>
    /\ wCalls = 0
    /\ wRecs = <<>>

\* LogWriter.write, the root logger's dispatch and the handler's emit
WrWrite(text) ==
    /\ wCalls < MaxWrites
    /\ LET rec == LogWriter_write(text)
           msg == IF wKind = "console" THEN ConsoleFormatter_format(rec)
                                       ELSE FileFormatter_plain(rec)
       IN  /\ wRecs' = Append(wRecs, rec)
           /\ wStream' = IF Accepts(wHandler, rec.levelno)
                         THEN MyStreamHandler_emit(wStream, msg, rec)
                         ELSE wStream
    /\ wWritten' = wWritten \o text
    /\ wCalls' = wCalls + 1
    /\ UNCHANGED <<wKind, wHandler, cmdVars, fmtVars, mailVars, ioVars>>

\* LogWriter.flush: "pass"
WrFlush == UNCHANGED vars

WrNext ==
    \/ \E t \in Texts : WrWrite(t)
    \/ WrFlush

(***************************************************************************)
(* MyStreamHandler on a broken stream.  In emit() an exception of          *)
(* stream.write is caught by the bare "except:" and handed to              *)
(* handleError(), which reports it and returns.  flush() turns an IOError  *)
(* of stream.flush into sys.exit when abortOnIOError is set, and           *)
(* SystemExit is the one exception emit() lets through; otherwise flush()  *)
(* re-raises the IOError, which emit() hands to handleError().             *)
(***************************************************************************)
\* Largest number of emit() calls
MaxEmits == 3

IoSinks == {"console", "error", "file"}

\* CmdHelper.__init__: MyStreamHandler(sys.stdout, True) for the console,
\* MyStreamHandler(sys.stderr) for the error stream; parse():
\* MyStreamHandler(open(logfile, 'a')) for the file.
abortFlag(sink) == sink = "console"

IoRecords ==
    {LogCall(l, <<"a">>) : l \in {INFO, WARNING}} \cup {LogWriter_write(<<"a">>)}

\* MyStreamHandler.flush: "ok", "SystemExit" or "IOError"
MyStreamHandler_flush(abort, broken) ==
    IF broken # "flush" THEN "ok"
    ELSE IF abort THEN "SystemExit"
    ELSE "IOError"

\* How MyStreamHandler.emit ends: "ok", "handleError" or "SystemExit"
MyStreamHandler_emit_end(abort, broken) ==
    IF broken = "write" THEN "handleError"
    ELSE LET f == MyStreamHandler_flush(abort, broken)
         IN  IF f = "IOError" THEN "handleError" ELSE f

IoInit ==
    /\ ioSink \in IoSinks
    /\ abortOnIOError = abortFlag(ioSink)
    /\ ioBroken = "none"
    /\ ioStream = <<>>
    /\ ioEmits = 0
    /\ ioFailed = 0
    /\ ioErrors = 0
    /\ ioExited = FALSE

\* The stream breaks, e.g. the reader of the pipe goes away
IoBreak(where) ==
    /\ ~ioExited
    /\ ioBroken = "none"
    /\ ioBroken' = where
    /\ UNCHANGED <<ioSink, abortOnIOError, ioStream, ioEmits, ioFailed, ioErrors,
                   ioExited, cmdVars, fmtVars, mailVars, wrVars>>

\* The root logger hands the handler a record it accepts
IoEmit(rec) ==
    /\ ~ioExited
    /\ ioEmits < MaxEmits
    /\ LET msg == IF ioSink = "file" THEN FileFormatter_plain(rec)
                                     ELSE ConsoleFormatter_format(rec)
           end == MyStreamHandler_emit_end(abortOnIOError, ioBroken)
       IN  /\ ioStream' = IF ioBroken = "none"
                          THEN MyStreamHandler_emit(ioStream, msg, rec)
                          ELSE ioStream
           /\ ioFailed' = IF ioBroken = "none" THEN ioFailed ELSE ioFailed + 1
           /\ ioErrors' = IF end = "handleError" THEN ioErrors + 1 ELSE ioErrors
           /\ ioExited' = (end = "SystemExit")
    /\ ioEmits' = ioEmits + 1
    /\ UNCHANGED <<ioSink, abortOnIOError, ioBroken, cmdVars, fmtVars, mailVars,
                   wrVars>>

IoNext ==
    \/ \E w \in {"write", "flush"} : IoBreak(w)
    \/ \E r \in IoRecords : IoEmit(r)

(***************************************************************************)
(* Specifications.  Each drives one part and holds the others still.       *)
(***************************************************************************)
CmdIdle ==
    /\ separateStdErr = FALSE
    /\ redirectStdOut = FALSE
    /\ parsed = FALSE
    /\ options = DefaultOptions
    /\ emailTrigger = NoLevel
    /\ handlers = CmdHelper_init(FALSE)
    /\ parseLog = <<>>
    /\ last = NoEvent

FmtIdle ==
    /\ fKind = "console"
    /\ fTsMode = FALSE
    /\ fStartLine = TRUE
    /\ fPrevStart = TRUE
    /\ fPrevLevel = NoLevel
    /\ fPrevEnded = FALSE
    /\ fRec = NoRecord
    /\ fOut = <<>>
    /\ fMidLine = FALSE
    /\ fWasMidLine = FALSE

MailIdle ==
    /\ mail = BufferingSMTPHandler_init(1, NoLevel)
    /\ mOp = "none"
    /\ mFlush = NoFlush
    /\ mSeen = NoLevel

WrIdle ==
    /\ wKind = "console"
    /\ wHandler = Handler(STDOUT, <<>>)
    /\ wStream = <<>>
    /\ wWritten = <<>>
    /\ wCalls = 0
    /\ wRecs = <<>>

IoIdle ==
    /\ ioSink = "console"
    /\ abortOnIOError = abortFlag("console")
    /\ ioBroken = "none"
    /\ ioStream = <<>>
    /\ ioEmits = 0
    /\ ioFailed = 0
    /\ ioErrors = 0
    /\ ioExited = FALSE

\* CmdHelper: construction, parse() and the records routed to the sinks
Init == CmdInit /\ FmtIdle /\ MailIdle /\ WrIdle /\ IoIdle

Next == CmdNext

Spec == Init /\ [][Next]_vars

\* The formatters
InitFmt == CmdIdle /\ FmtInit /\ MailIdle /\ WrIdle /\ IoIdle

NextFmt == FmtNext

SpecFmt == InitFmt /\ [][NextFmt]_vars

\* The buffering e-mail handler
InitMail == CmdIdle /\ FmtIdle /\ MailInit /\ WrIdle /\ IoIdle

NextMail == MailNext

SpecMail == InitMail /\ [][NextMail]_vars

\* The stdout redirector
InitWr == CmdIdle /\ FmtIdle /\ MailIdle /\ WrInit /\ IoIdle

NextWr == WrNext

SpecWr == InitWr /\ [][NextWr]_vars

\* One stream handler and a stream that breaks
InitIO == CmdIdle /\ FmtIdle /\ MailIdle /\ WrIdle /\ IoInit

NextIO == IoNext

SpecIO == InitIO /\ [][NextIO]_vars

(***************************************************************************)
(* Properties.                                                             *)
(***************************************************************************)
\* The records dispatched so far that the state still shows
AllEvents ==
    {parseLog[i] : i \in 1..Len(parseLog)} \cup (IF last = NoEvent THEN {} ELSE {last})

Registered(e, s) == e.thr[s] # NoLevel

\* The level filters CmdHelper.__init__ documents: with separateStdErr the
\* console keeps only STDOUT-level records and the error stream drops them
FilterLets(s, levelno) ==
    CASE s = "console" -> (separateStdErr => levelno = STDOUT)
      [] s = "error" -> levelno # STDOUT
      [] OTHER -> TRUE

\* C1 as stated: for every registered sink, a record below the sink's
\* threshold is never delivered to it and a record at or above the
\* threshold always is.
C1_ThresholdAlone ==
    \A e \in AllEvents : \A s \in SinkNames :
        Registered(e, s) =>
            /\ (e.level < e.thr[s] => s \notin e.sinks)
            /\ (e.level >= e.thr[s] => s \in e.sinks)

\* C1 amended: a record below the sink's threshold is never delivered; a
\* record at or above it is delivered iff the sink's level filter lets it
\* pass, which is always for the file sink, the e-mail sink and the
\* console sink without separateStdErr.
C1_ThresholdAndFilter ==
    \A e \in AllEvents : \A s \in SinkNames :
        Registered(e, s) =>
            /\ (e.level < e.thr[s] => s \notin e.sinks)
            /\ (e.level >= e.thr[s] => (s \in e.sinks <=> FilterLets(s, e.level)))

\* A record exactly at the raised threshold of the file sink reached it and
\* stayed out of the e-mail sink, whose threshold is higher.
C1_Witness ==
    /\ parsed
    /\ last.level = WARNING
    /\ last.thr["file"] = WARNING /\ "file" \in last.sinks
    /\ last.thr["email"] = ERROR /\ "email" \notin last.sinks

\* C2: with separateStdErr, a record is written to the console (stdout)
\* sink iff it is at STDOUT level and meets that sink's threshold, to the
\* error (stderr) sink iff it is not at STDOUT level and meets that sink's
\* threshold, and never to both.
C2_ConsoleSplit ==
    separateStdErr =>
        \A e \in AllEvents :
            /\ "console" \in e.sinks
                   <=> (e.level = STDOUT /\ e.level >= e.thr["console"])
            /\ "error" \in e.sinks
                   <=> (e.level # STDOUT /\ e.level >= e.thr["error"])
            /\ ~({"console", "error"} \subseteq e.sinks)

\* After parse() reported an illegal option on stderr, a redirected write
\* went to stdout.
C2_Witness ==
    /\ separateStdErr
    /\ parsed
    /\ last.tag = "write" /\ last.sinks = {"console"}
    /\ \E i \in 1..Len(parseLog) :
          parseLog[i].level = ERROR /\ "error" \in parseLog[i].sinks

\* A sink without a level filter whose threshold is one of the six
\* severities, as an order of the severities would have it accept records
Rank(order, levelno) == CHOOSE i \in 1..Len(order) : order[i] = levelno

Increasing(order) ==
    \A i \in 1..Len(order) : \A j \in 1..Len(order) :
        i < j => order[i] < order[j]

RoutedBy(order) ==
    \A e \in AllEvents : \A s \in {"file", "email"} :
        (Registered(e, s) /\ e.thr[s] \in Levels) =>
            (s \in e.sinks <=> Rank(order, e.level) >= Rank(order, e.thr[s]))

\* C10 as stated: threshold comparisons follow the order DEBUG < STDOUT <
\* INFO < WARNING < ERROR < CRITICAL, in which STDOUT lies between DEBUG
\* and INFO.
C10_StdoutBelowInfo ==
    RoutedBy(<<DEBUG, STDOUT, INFO, WARNING, ERROR, CRITICAL>>)

\* C10 amended: the order is DEBUG < INFO < STDOUT < WARNING < ERROR <
\* CRITICAL (STDOUT lies strictly between INFO and WARNING), and
\* thresholds accept by it.
C10_StdoutAboveInfo ==
    LET order == <<DEBUG, INFO, STDOUT, WARNING, ERROR, CRITICAL>>
    IN  Increasing(order) /\ RoutedBy(order)

\* The file sink at threshold STDOUT left out the INFO header of parse()
\* and then took a redirected write.
C10_Witness ==
    /\ parsed
    /\ \E i \in 1..Len(parseLog) :
          /\ parseLog[i].level = INFO
          /\ parseLog[i].thr["file"] = STDOUT
          /\ "file" \notin parseLog[i].sinks
    /\ last.tag = "write" /\ "file" \in last.sinks

(***************************************************************************)
(* Properties of the formatters.                                           *)
(***************************************************************************)
\* The last record formatted was a redirected write on a file sink in time
\* stamp mode
StampedWrite == fKind = "file" /\ fTsMode /\ fRec.levelno = STDOUT

\* The characters of a time stamp in a text; a message holds none
stampChars(s) == Cardinality({i \in 1..Len(s) : s[i] = "T"})

\* C5: in time stamp mode the first segment of a STDOUT-level write is
\* prefixed with the time stamp iff the continuation state says the
\* previous formatted output ended a line or nothing was written yet, and
\* is emitted unprefixed otherwise; in a run of writes the state says so
\* iff the previous write's formatted output ended in a line break.
C5_StampIffLineStart ==
    StampedWrite =>
        /\ split(fOut)[1]
              = (IF fPrevStart THEN asctime ELSE <<>>) \o split(fRec.msg)[1]
        /\ stampChars(fOut) = (IF fPrevStart THEN TsLen ELSE 0)
        /\ (fPrevLevel = NoLevel => fPrevStart)
        /\ (fPrevLevel = STDOUT => (fPrevStart <=> fPrevEnded))

\* The write "a\n" after a write that ended in mid-line: no time stamp.
C5_Witness ==
    /\ StampedWrite
    /\ fPrevLevel = STDOUT /\ ~fPrevEnded
    /\ fRec.msg = <<"a", NL>>
    /\ fOut = <<"a", NL>>
    /\ fStartLine

\* C6: in time stamp mode, of the segments of one STDOUT-level message
\* split on line breaks, every segment after the first is prefixed with
\* exactly len(timestamp) spaces iff it is non-empty, an empty segment gets
\* no prefix, and the segments are rejoined with single line breaks.
C6_ContinuationPadding ==
    StampedWrite =>
        LET in  == split(fRec.msg)
            out == split(fOut)
        IN  /\ Len(out) = Len(in)
            /\ \A i \in 2..Len(in) :
                  out[i] = IF in[i] = <<>> THEN <<>>
                                           ELSE spaces(TsLen) \o in[i]

\* "\n\na" at a line start: the time stamp, an empty line, the padded "a".
C6_Witness ==
    /\ StampedWrite
    /\ fPrevStart
    /\ fRec.msg = <<NL, NL, "a">>
    /\ fOut = asctime \o <<NL, NL>> \o spaces(TsLen) \o <<"a">>

\* C7 as stated: after every record formatted in time stamp mode, at
\* STDOUT level or any other, the continuation state is true iff the
\* formatted output of that record ends in a line break.
C7_StateIsLineEnd ==
    (fKind = "file" /\ fTsMode /\ fRec # NoRecord) =>
        (fStartLine <=> endsWithNL(fOut))

\* C7 amended: after a STDOUT-level record the continuation state is true
\* iff the formatted output of that record ends in a line break; after a
\* record of any other severity it is true whatever the output ends in.
C7_StateAfterRecord ==
    (fKind = "file" /\ fTsMode /\ fRec # NoRecord) =>
        IF fRec.levelno = STDOUT
        THEN fStartLine <=> endsWithNL(fOut)
        ELSE fStartLine

\* An empty write at a line start: the output is the bare time stamp, and
\* the state is false although the message did not start a line.
C7_Witness ==
    /\ StampedWrite
    /\ fPrevStart
    /\ fRec.msg = <<>>
    /\ fOut = asctime
    /\ ~fStartLine

\* What the console formatter is to render, with the severities that get
\* the "LEVEL: " prefix left open
ConsoleText(rec, prefixed) ==
    IF rec.name # root
    THEN ljust(levelname(rec.levelno), 7) \o <<" ">> \o ljust(rec.name, 30)
         \o <<" ">> \o rec.msg
    ELSE IF rec.levelno \in prefixed
    THEN levelname(rec.levelno) \o <<":", " ">> \o rec.msg
    ELSE IF rec.levelno = DEBUG
    THEN <<".", ".", ".", " ">> \o rec.msg
    ELSE rec.msg

\* C9 as stated: a record of a named logger renders as level padded to 7,
\* name padded to 30 and message; otherwise INFO, WARNING, ERROR and
\* CRITICAL render as "LEVEL: MESSAGE"; otherwise DEBUG renders as
\* "... MESSAGE"; otherwise the bare message.
C9_InfoPrefixed ==
    (fKind = "console" /\ fRec # NoRecord) =>
        fOut = ConsoleText(fRec, {INFO, WARNING, ERROR, CRITICAL})

\* C9 amended: as stated, but the severities above the STDOUT level, which
\* render as "LEVEL: MESSAGE", are WARNING, ERROR and CRITICAL; an INFO
\* record of the top-level logger renders as the bare message.
C9_WarningAndAbovePrefixed ==
    (fKind = "console" /\ fRec # NoRecord) =>
        fOut = ConsoleText(fRec, {WARNING, ERROR, CRITICAL})

\* info("a") on the root logger rendered as "a".
C9_Witness ==
    /\ fKind = "console"
    /\ fRec = LogCall(INFO, <<"a">>)
    /\ fOut = <<"a">>

(***************************************************************************)
(* Properties of the buffering e-mail handler.                             *)
(***************************************************************************)
\* The buffered records as one text, in the order of the buffer
RECURSIVE combined(_, _)
combined(buffer, n) ==
    IF n = 0 THEN <<>>
    ELSE combined(buffer, n - 1)
         \o ConsoleText(buffer[n], {WARNING, ERROR, CRITICAL})
         \o (IF buffer[n].terminator THEN <<NL>> ELSE <<>>)

\* What a flush is to do with the buffer it found, given whether it is live
FlushDoes(live) ==
    /\ mFlush.sent <=> live
    /\ mFlush.sent => mFlush.text = combined(mFlush.before, Len(mFlush.before))
    /\ ~mFlush.sent => (mFlush.text = <<>> /\ mail.buffer = <<>>)

\* C3 as stated: a flush, explicit or forced by the buffer reaching its
\* capacity, hands the buffered records to the transport as one message in
\* emit order iff the buffer is non-empty and either no trigger severity is
\* configured or a record now in the buffer is at or above it; otherwise
\* it delivers nothing and discards the buffer.
C3_TriggerInBuffer ==
    mFlush.ran =>
        FlushDoes(/\ Len(mFlush.before) > 0
                  /\ \/ mail.triggerLevelNo = NoLevel
                     \/ \E i \in 1..Len(mFlush.before) :
                           mFlush.before[i].levelno >= mail.triggerLevelNo)

\* C3 amended: ... iff the buffer is non-empty and either no trigger
\* severity is configured or a record emitted to the sink since it was
\* constructed, in this buffer or an earlier one, was at or above it.
C3_TriggerEverSeen ==
    mFlush.ran =>
        FlushDoes(/\ Len(mFlush.before) > 0
                  /\ \/ mail.triggerLevelNo = NoLevel
                     \/ mSeen >= mail.triggerLevelNo)

\* Capacity 3, trigger WARNING: two INFO records and a WARNING record sent
\* as one message by the flush the third emit forced.
C3_Witness ==
    /\ mail.capacity = 3 /\ mail.triggerLevelNo = WARNING
    /\ mOp = "emit" /\ mFlush.ran /\ mFlush.sent /\ ~mFlush.raised
    /\ mFlush.before = <<LogCall(INFO, <<"a">>), LogCall(INFO, <<"a">>),
                         LogCall(WARNING, <<"a">>)>>
    /\ mFlush.text = <<"a", NL, "a", NL>>
                     \o <<"W", "A", "R", "N", "I", "N", "G", ":", " ", "a", NL>>
    /\ mail.buffer = <<>>

\* C4: after every flush in which delivery is attempted, the buffer is
\* empty, whether the transport call succeeded or failed.
C4_BufferEmptyAfterAttempt ==
    (mFlush.ran /\ mFlush.sent) => mail.buffer = <<>>

(***************************************************************************)
(* Properties of the stdout redirector.                                    *)
(***************************************************************************)
\* C8: each write produces exactly one STDOUT-level record flagged to
\* suppress the trailing newline, and the text written by a sink that
\* accepts STDOUT-level records without time stamp mode is exactly the
\* concatenation of the written strings.
C8_WritesRoundTrip ==
    /\ Len(wRecs) = wCalls
    /\ \A i \in 1..Len(wRecs) :
          wRecs[i].levelno = STDOUT /\ ~wRecs[i].terminator
    /\ wHandler.level <= STDOUT => wStream = wWritten

\* "a" then "\n" written: the sink holds "a\n".
C8_Witness ==
    /\ wHandler.level = STDOUT
    /\ wCalls = 2
    /\ wRecs = <<LogWriter_write(<<"a">>), LogWriter_write(<<NL>>)>>
    /\ wStream = <<"a", NL>>

\* C16: on a file handler in time stamp mode fed redirected writes and
\* logging calls at INFO and above, a record's text holds at most one time
\* stamp, at its start, and a record with a time stamp is written when the
\* file is empty or ends in a line break.
C16_StampAtLineStart ==
    (/\ fKind = "file" /\ fTsMode
     /\ fRec.levelno >= INFO /\ fPrevLevel # DEBUG
     /\ stampChars(fOut) > 0) =>
        /\ stampChars(fOut) = TsLen
        /\ SubSeq(fOut, 1, TsLen) = asctime
        /\ ~fWasMidLine

(***************************************************************************)
(* Illegal level options.                                                  *)
(***************************************************************************)
\* The positions in parse()'s records of the ERROR records with this text
Reports(tag) ==
    {i \in 1..Len(parseLog) :
        parseLog[i].tag = tag /\ parseLog[i].level = ERROR}

IllegalLevel(arg) == ~getLogLevelNo(arg).ok

IllegalFileLevel ==
    options.logfile /\ options.loglevel # "None"
    /\ IllegalLevel(options.loglevel)

IllegalEmailLevel == options.emailto /\ IllegalLevel(options.emaillevel)

IllegalTrigLevel ==
    options.emailto /\ options.emailtriglevel # "None"
    /\ IllegalLevel(options.emailtriglevel)

ErrorRecords == {i \in 1..Len(parseLog) : parseLog[i].level = ERROR}

\* C11: when the log-file level, the e-mail level or the e-mail trigger level
\* is no severity name, parse() completes with the sink registered at its
\* default (file INFO, e-mail WARNING, no trigger severity) and dispatches
\* exactly one ERROR record for that option, which some sink emits; a
\* requested sink is registered whatever its level option says.
C11_IllegalLevelFallsBack ==
    parsed =>
        /\ options.logfile => handlers["file"].present
        /\ options.emailto => handlers["email"].present
        /\ IllegalFileLevel =>
              /\ handlers["file"].level = INFO
              /\ Cardinality(Reports("illegal loglevel")) = 1
        /\ IllegalEmailLevel =>
              /\ handlers["email"].level = WARNING
              /\ Cardinality(Reports("illegal emaillevel")) = 1
        /\ IllegalTrigLevel =>
              /\ emailTrigger = NoLevel
              /\ Cardinality(Reports("illegal email trigger level")) = 1
        /\ Cardinality(ErrorRecords) =
              (IF IllegalFileLevel THEN 1 ELSE 0)
              + (IF IllegalEmailLevel THEN 1 ELSE 0)
              + (IF IllegalTrigLevel THEN 1 ELSE 0)
        /\ \A i \in ErrorRecords : parseLog[i].sinks # {}

C11_Witness ==
    /\ parsed
    /\ IllegalFileLevel /\ IllegalEmailLevel /\ IllegalTrigLevel
    /\ options.loglevel = "30"
    /\ handlers["file"].level = INFO
    /\ handlers["email"].level = WARNING
    /\ emailTrigger = NoLevel
    /\ Cardinality(ErrorRecords) = 3

(***************************************************************************)
(* The session header.                                                     *)
(***************************************************************************)
\* The file handler emitted the i-th record of parse()
InFile(i) == "file" \in parseLog[i].sinks

\* C13: with a log file and a separator configured, parse() writes the
\* separator to the log file whatever the file's level option is, and the
\* file handler emitted nothing but blank records before it.
C13_SeparatorFirst ==
    (parsed /\ options.logfile /\ options.logseparator) =>
        \E i \in 1..Len(parseLog) :
            /\ parseLog[i].tag = "separator"
            /\ InFile(i)
            /\ \A j \in 1..(i - 1) : InFile(j) => parseLog[j].tag = "blank"

ConsoleSinks == {"console", "error"}

HeaderTags == {"blank", "separator", "cmdline"}

Header == {i \in 1..Len(parseLog) : parseLog[i].tag \in HeaderTags}

\* C15: the header records of parse() (blank line, separator, command line,
\* blank line) are emitted by no handler but the file handler: by neither
\* console handler and not by the e-mail handler, whatever verbose, debug and
\* the e-mail options are.
C15_HeaderOnlyInFile ==
    parsed =>
        /\ Cardinality(Header) = (IF options.logseparator THEN 4 ELSE 3)
        /\ \A i \in Header : parseLog[i].sinks \subseteq {"file"}

C15_Witness ==
    /\ parsed
    /\ separateStdErr
    /\ options.debug /\ options.verbose /\ ~options.noscreen
    /\ options.logfile /\ options.logseparator
    /\ options.emailto /\ options.emaillevel = "INFO"
    /\ handlers["console"].level = DEBUG
    /\ handlers["error"].level = DEBUG
    /\ handlers["email"].level = INFO
    /\ Cardinality(Header) = 4
    /\ \A i \in Header : parseLog[i].sinks = {"file"}

\* C14: with noscreen, neither console handler emitted any record that
\* parse() dispatched, and neither emits a record of a later logging call or
\* redirected write, whatever the other options are.
C14_NoScreenSilent ==
    (parsed /\ options.noscreen) =>
        \A e \in AllEvents : e.sinks \cap ConsoleSinks = {}

(***************************************************************************)
(* Broken streams.                                                         *)
(***************************************************************************)
\* C12: once the stream of the console or of the error handler has raised
\* in emit(), be it in write or in flush, the process has exited, and
\* handleError() was not called.
C12_BrokenStreamExits ==
    (ioSink \in {"console", "error"} /\ ioFailed > 0) =>
        (ioExited /\ ioErrors = 0 /\ ioFailed = 1)

====
